---- MODULE Spec2Model ----
(***************************************************************************)
(* Model of tethne/analyze/collection.py: the four analysis operations on  *)
(* a GraphCollection (algorithm, connected, delta, attachment_probability).*)
(* Each call is a sequence of steps: a begin step (the code before the     *)
(* loop over the graphs), one step per graph of the loop, and a finish     *)
(* step (the code after the loop).  Calls never interleave.                *)
(***************************************************************************)
EXTENDS Integers, Sequences, FiniteSets, TLC

\* ------------------------------------------------------------------ bounds
MaxSlices == 3    \* slices of a collection in SpecDelta
APSlices == 2     \* slices of a collection in SpecAP and Spec
MaxVal == 3       \* largest numeric attribute value in an initial collection
MaxCalls == 2     \* calls made on one collection in Spec

Nodes == {"A", "B", "C"}

\* ----------------------------------------------------------- python values
\* A Python value stored in an attribute or a result: <<tag, a, b>>.
\*   <<"num", a, b>>    the float a/b (b > 0, lowest terms)
\*   <<"numstr", a, 1>> a string holding the digits of a
\*   <<"text", 0, 1>>   a string that is no number
\*   <<"none", 0, 1>>   None
RECURSIVE GCD(_, _)
GCD(a, b) == IF b = 0 THEN a ELSE GCD(b, a % b)

Frac(a, b) == IF a = 0 THEN <<"num", 0, 1>>
              ELSE <<"num", a \div GCD(a, b), b \div GCD(a, b)>>

Num(v) == <<"num", v, 1>>

NoKey == 0        \* None, as the value of k_ and of last[n]

EmptyDict == [x \in {} |-> 0]

SetKey(f, key, v) == [x \in DOMAIN f \cup {key} |-> IF x = key THEN v ELSE f[x]]

RECURSIVE SumOver(_, _)
SumOver(f, S) == IF S = {} THEN 0
                 ELSE LET x == CHOOSE y \in S : TRUE
                      IN  f[x] + SumOver(f, S \ {x})

\* ------------------------------------------------------------------- state
VARIABLES
    order,      \* C.graphs.keys(): the slice indices in the mapping's raw order
    gnodes,     \* gnodes[k]: the nodes of graph C.graphs[k]
    gedges,     \* gedges[k]: the edges of graph C.graphs[k], each a set {u, v}
    attr,       \* attr[k][n]: the attribute dict of node n in graph k
    pc,         \* "idle", the name of the running operation, or "done"
    call,       \* the running (or last) call: [op, name, kw]
    i,          \* position of the loop over the slices (1-based)
    results,    \* the mapping the call builds (results, deltas, probs)
    err,        \* the exception the call raised: <<type, message>>, or NoErr
    invoked,    \* the slices whose graph was handed to the external function
    last,       \* delta: last[n]
    kprev,      \* attachment_probability: k_
    new_edges,  \* attachment_probability: new_edges of the latest iteration
    N,          \* attachment_probability: N of the latest iteration
    prev,       \* the previous completed call: [call, results, err]
    ncalls      \* calls begun so far

vars == <<order, gnodes, gedges, attr, pc, call, i, results, err, invoked,
          last, kprev, new_edges, N, prev, ncalls>>

coll == <<order, gnodes, gedges>>

NoErr == <<"none", <<>>>>

\* **kwargs: none, or nbunch=<a set of nodes>.
NoKw == [given |-> FALSE, nbunch |-> {}]

NoCall == [op |-> "none", name |-> "", kw |-> NoKw]

\* ------------------------------------------------------- graphs, collection
Keys == {order[j] : j \in 1..Len(order)}

\* G[n].keys(): the neighbors of n in graph k (n must be a node of it).
Neighbors(k, n) == {m \in gnodes[k] : {n, m} \in gedges[k] /\ m # n}

\* C.nodes(): the union of the node identifiers of all graphs.
CNodes == UNION {gnodes[k] : k \in Keys}

\* nx.set_node_attributes(G, name, values) on graph k, for node-keyed values:
\* G.node[n][name] = v for every item of values.
SetNodeAttributes(k, name, values) ==
    [attr EXCEPT ![k] = [n \in gnodes[k] |->
        IF n \in DOMAIN values THEN SetKey(attr[k][n], name, values[n])
        ELSE attr[k][n]]]

AllGraphs == {g \in [nodes : SUBSET Nodes, edges : SUBSET (SUBSET Nodes)] :
                \A e \in g.edges : Cardinality(e) = 2 /\ e \subseteq g.nodes}

\* The raw orders of the keys 1..n tried: ascending and descending.
UpDown(n) == {[j \in 1..n |-> j], [j \in 1..n |-> n + 1 - j]}

InitCall ==
    /\ pc = "idle"
    /\ call = NoCall
    /\ i = 0
    /\ results = EmptyDict
    /\ err = NoErr
    /\ invoked = <<>>
    /\ last = EmptyDict
    /\ kprev = NoKey
    /\ new_edges = EmptyDict
    /\ N = 0
    /\ prev = [call |-> NoCall, results |-> EmptyDict, err |-> NoErr]
    /\ ncalls = 0

\* ------------------------------------------------- attachment_probability
\* Mutant: the zero-prior-neighbors case is not singled out.
NewEdges_nozero(kp, k) ==
    [n \in {m \in gnodes[k] : m \in gnodes[kp]} |->
        Cardinality(Neighbors(k, n) \ Neighbors(kp, n))]

\* Lines 216-225: the new-edge counts of the nodes of the current graph k
\* that are also nodes of the previous graph kp.
NewEdges(kp, k) ==
    [n \in {m \in gnodes[k] : m \in gnodes[kp]} |->
        IF Cardinality(Neighbors(kp, n)) > 0
        THEN Cardinality(Neighbors(k, n) \ Neighbors(kp, n))
        ELSE 0]

\* Mutant: N counts the entries of new_edges instead of summing them.
TotalNew_len(ne) == Cardinality(DOMAIN ne)

\* Line 227: N = sum(new_edges.values()).
TotalNew(ne) == SumOver(ne, DOMAIN ne)

\* Mutant: no zero default for the nodes of the previous graph.
ProbsOf_nodefault(kp, ne, total) ==
    LET hit == IF total > 0 THEN CNodes \cap DOMAIN ne ELSE {}
    IN  [n \in hit |-> Frac(ne[n], total)]

\* Mutant: the count is not divided by N.
ProbsOf_nodiv(kp, ne, total) ==
    LET hit == IF total > 0 THEN CNodes \cap DOMAIN ne ELSE {}
    IN  [n \in gnodes[kp] \cup hit |->
            IF n \in hit THEN Num(ne[n]) ELSE Num(0)]

\* Lines 228-234: probs[k_].
ProbsOf(kp, ne, total) ==
    LET hit == IF total > 0 THEN CNodes \cap DOMAIN ne ELSE {}
    IN  [n \in gnodes[kp] \cup hit |->
            IF n \in hit THEN Frac(ne[n], total) ELSE Num(0)]

APBegin ==
    /\ pc = "idle"
    /\ pc' = "attachment_probability"
    /\ call' = [NoCall EXCEPT !.op = "attachment_probability"]
    /\ i' = 1
    /\ results' = EmptyDict
    /\ err' = NoErr
    /\ invoked' = <<>>
    /\ kprev' = NoKey
    /\ new_edges' = EmptyDict
    /\ N' = 0
    /\ ncalls' = ncalls + 1
    /\ UNCHANGED <<coll, attr, last, prev>>

\* One iteration of the loop of lines 213-240.
APStep ==
    /\ pc = "attachment_probability"
    /\ i <= Len(order)
    /\ LET k == order[i]
       IN  /\ IF kprev # NoKey
              THEN LET ne == NewEdges(kprev, k)
                       total == TotalNew(ne)
                       p == ProbsOf(kprev, ne, total)
                   IN  /\ new_edges' = ne
                       /\ N' = total
                       /\ results' = SetKey(results, kprev, p)
                       /\ IF DOMAIN p \subseteq gnodes[kprev]
                          THEN /\ attr' = SetNodeAttributes(kprev, "attachment_probability", p)
                               /\ pc' = pc
                               /\ err' = err
                          ELSE /\ attr' \in {SetNodeAttributes(kprev, "attachment_probability",
                                                 [n \in W |-> p[n]]) :
                                             W \in SUBSET (DOMAIN p \cap gnodes[kprev])}
                               /\ pc' = "done"
                               /\ err' = <<"KeyError", <<>>>>
              ELSE /\ new_edges' = EmptyDict
                   /\ N' = N
                   /\ UNCHANGED <<results, attr, pc, err>>
           /\ kprev' = k
           /\ i' = i + 1
    /\ UNCHANGED <<coll, call, invoked, last, prev, ncalls>>

\* Lines 242-247: the last graph, and the return.
APFinish ==
    /\ pc = "attachment_probability"
    /\ i > Len(order)
    /\ IF Len(order) = 0
       THEN /\ err' = <<"IndexError", <<>>>>
            /\ attr' = attr
       ELSE LET key == order[Len(order)]
                zprobs == [n \in gnodes[key] |-> Num(0)]
            IN  /\ attr' = SetNodeAttributes(key, "attachment_probability", zprobs)
                /\ err' = err
    /\ pc' = "done"
    /\ UNCHANGED <<coll, call, i, results, invoked, last, kprev, new_edges, N, prev, ncalls>>

InitAP ==
    /\ \E n \in 0..APSlices :
         /\ order \in UpDown(n)
         /\ \E gs \in [1..n -> AllGraphs] :
              /\ gnodes = [k \in 1..n |-> gs[k].nodes]
              /\ gedges = [k \in 1..n |-> gs[k].edges]
              /\ attr = [k \in 1..n |-> [m \in gs[k].nodes |-> EmptyDict]]
    /\ InitCall

NextAP == (ncalls < 1 /\ APBegin) \/ APStep \/ APFinish

SpecAP == InitAP /\ [][NextAP]_vars

\* -------------------------------------------------------------------- delta
RECURSIVE SortedSeq(_)
SortedSeq(S) ==
    IF S = {} THEN <<>>
    ELSE LET m == CHOOSE x \in S : \A y \in S : x <= y
         IN  <<m>> \o SortedSeq(S \ {m})

\* Mutant: the keys are taken in the mapping's raw order.
SortedKeys_raw == order

\* Line 87: keys = sorted(G.graphs.keys()).
SortedKeys == SortedSeq(Keys)

\* Lines 95 and 99: what float(asdict[n][attribute]) does for node n in graph
\* k: "KeyError" when n is no node of the graph or does not carry the
\* attribute, "ValueError" for a string that is no number, "TypeError" for
\* None, "ok" otherwise.
Coerce(k, n, attribute) ==
    IF n \notin gnodes[k] THEN "KeyError"
    ELSE IF attribute \notin DOMAIN attr[k][n] THEN "KeyError"
    ELSE CASE attr[k][n][attribute][1] = "text" -> "ValueError"
           [] attr[k][n][attribute][1] = "none" -> "TypeError"
           [] OTHER -> "ok"

\* float(v) of a value v that float() accepts: a number, or a string of digits.
ToFloat(v) == IF v[1] = "numstr" THEN Num(v[2]) ELSE v

\* Mutant: every exception is caught.
Caught_all(e) == TRUE

\* Line 109: except KeyError.
Caught(e) == e = "KeyError"

\* x - y on floats.
Sub(x, y) == Frac(x[2] * y[3] - y[2] * x[3], x[3] * y[3])

IsNone(v) == v[1] = "none"

PyNone == <<"none", 0, 1>>

\* Mutant: the delta is taken against zero whatever was seen before.
DeltaOf_nolast(lastn, curr) == curr

\* Lines 100-107: the delta of curr against last[n].
DeltaOf(lastn, curr) == IF IsNone(lastn) THEN curr ELSE Sub(curr, lastn)

\* Mutant: the deltas are written back under the source attribute's name.
DeltaName_same(attribute) == attribute

\* Line 111: attribute+'_delta'.
DeltaName(attribute) == attribute \o "_delta"

\* Lines 87-91.
DeltaBegin(attribute) ==
    /\ pc = "idle"
    /\ pc' = "delta"
    /\ call' = [NoCall EXCEPT !.op = "delta", !.name = attribute]
    /\ i' = 1
    /\ results' = [k \in Keys |-> EmptyDict]
    /\ last' = [n \in CNodes |-> PyNone]
    /\ err' = NoErr
    /\ invoked' = <<>>
    /\ ncalls' = ncalls + 1
    /\ UNCHANGED <<coll, attr, kprev, new_edges, N, prev>>

\* One iteration of the loop of lines 93-111.  The nodes are visited in the
\* order of all_nodes, which the code does not fix: when several nodes raise,
\* any of them may be the one that ends the call.  The partly filled deltas[k]
\* of a raising iteration is a local the caller never sees.
DeltaStep ==
    /\ pc = "delta"
    /\ i <= Len(SortedKeys)
    /\ LET k == SortedKeys[i]
           attribute == call.name
           raising == {n \in CNodes : Coerce(k, n, attribute) # "ok"
                                      /\ ~Caught(Coerce(k, n, attribute))}
           seen == {n \in CNodes : Coerce(k, n, attribute) = "ok"}
           curr == [n \in seen |-> ToFloat(attr[k][n][attribute])]
           dk == [n \in seen |-> DeltaOf(last[n], curr[n])]
       IN  IF raising # {}
           THEN /\ \E n \in raising : err' = <<Coerce(k, n, attribute), <<>>>>
                /\ pc' = "done"
                /\ UNCHANGED <<results, last, attr, i>>
           ELSE /\ results' = [results EXCEPT ![k] = dk]
                /\ last' = [n \in CNodes |-> IF n \in seen THEN curr[n] ELSE last[n]]
                /\ attr' = SetNodeAttributes(k, DeltaName(attribute), dk)
                /\ i' = i + 1
                /\ UNCHANGED <<pc, err>>
    /\ UNCHANGED <<coll, call, invoked, kprev, new_edges, N, prev, ncalls>>

\* Line 113: return deltas.
DeltaFinish ==
    /\ pc = "delta"
    /\ i > Len(SortedKeys)
    /\ pc' = "done"
    /\ UNCHANGED <<coll, attr, call, i, results, err, invoked, last, kprev,
                   new_edges, N, prev, ncalls>>

\* Raw attribute values of an initial collection.
RawValues == {Num(v) : v \in 1..MaxVal}
             \cup {<<"numstr", 1, 1>>, <<"text", 0, 1>>, PyNone}

\* What node "A" is in one slice: no node, a node without the attribute, or
\* a node carrying one of the raw values.
ShapesA == {<<"absent", 0, 1>>, <<"bare", 0, 1>>} \cup RawValues

\* Node "B" over the n slices: in no slice, or carrying 1 in every slice but
\* slice gap (gap = 0: in every slice).
ShapesB(n) ==
    {[k \in 1..n |-> <<"absent", 0, 1>>]}
    \cup {[k \in 1..n |-> IF k = gap THEN <<"absent", 0, 1>> ELSE Num(1)] : gap \in 0..n}

AttrOf(shape) == IF shape[1] = "bare" THEN EmptyDict ELSE [a \in {"x"} |-> shape]

InitDelta ==
    /\ \E n \in 0..MaxSlices :
         /\ order \in UpDown(n)
         /\ \E sa \in [1..n -> ShapesA], sb \in ShapesB(n) :
              LET shape(k, m) == IF m = "A" THEN sa[k] ELSE sb[k]
                  present(k) == {m \in {"A", "B"} : shape(k, m)[1] # "absent"}
              IN  /\ gnodes = [k \in 1..n |-> present(k)]
                  /\ gedges = [k \in 1..n |-> {}]
                  /\ attr = [k \in 1..n |-> [m \in present(k) |-> AttrOf(shape(k, m))]]
    /\ InitCall

NextDelta == (ncalls < 1 /\ DeltaBegin("x")) \/ DeltaStep \/ DeltaFinish

SpecDelta == InitDelta /\ [][NextDelta]_vars

\* -------------------------------------------------- the external namespaces
\* nx.__dict__: the kind of value bound to each name.
NxDict ==
    [m \in {"degree", "edge_betweenness_centrality",
            "number_connected_components", "Graph"} |->
        IF m = "Graph" THEN "class" ELSE "function"]

\* nx.connected.__dict__.
NxConnectedDict ==
    [m \in {"number_connected_components", "nx"} |->
        IF m = "nx" THEN "module" ELSE "function"]

\* The method names a caller passes.
Methods == {"degree", "edge_betweenness_centrality",
            "number_connected_components", "Graph", "nx", "name"}

KwChoices == {NoKw, [given |-> TRUE, nbunch |-> {"A"}]}

\* Mutant: anything callable passes, classes included.
IsFunction_callable(kind) == kind \in {"function", "class"}

\* Lines 62 and 168: type(...) is types.FunctionType.
IsFunction(kind) == kind = "function"

\* Mutant: the message ends with the method string.
Message_named(what, where, method) == <<"No", "such", what, "in", where, method>>

\* Lines 60, 63, 166, 169: the message of the ValueError, word by word.
Message(what, where, method) == <<"No", "such", what, "in", where>>

\* Whether the function takes the keyword arguments: degree takes nbunch, the
\* others take none of the keywords modelled.
Accepts(method, kw) == ~kw.given \/ method = "degree"

RECURSIVE Reach(_, _)
Reach(k, S) ==
    LET T == S \cup UNION {Neighbors(k, n) : n \in S}
    IN  IF T = S THEN S ELSE Reach(k, T)

RECURSIVE CountComponents(_, _)
CountComponents(k, rest) ==
    IF rest = {} THEN 0
    ELSE LET n == CHOOSE x \in rest : TRUE
         IN  1 + CountComponents(k, rest \ Reach(k, {n}))

\* Whether the function returns a mapping (element -> value).
ReturnsMapping(method) == method \in {"degree", "edge_betweenness_centrality"}

\* Whether the mapping is keyed by nodes (else by edges).
NodeKeyed(method) == method = "degree"

\* nx.__dict__[method](G, **kwargs) on graph k.  degree: the degree of the
\* nodes of nbunch that are in G (of all nodes without nbunch).
\* edge_betweenness_centrality: one entry per edge; the centrality values are
\* not modelled (every edge gets the value 1), the dispatcher only stores them.
\* number_connected_components: an int.
NxApply(method, k, kw) ==
    CASE method = "degree" ->
            [n \in (IF kw.given THEN kw.nbunch \cap gnodes[k] ELSE gnodes[k]) |->
                Num(Cardinality(Neighbors(k, n)))]
      [] method = "edge_betweenness_centrality" ->
            [e \in gedges[k] |-> Num(1)]
      [] OTHER -> Num(CountComponents(k, gnodes[k]))

\* Lines 67-71: results[elem][k] = value for every item of r.
Merge(res, k, r) ==
    [e \in DOMAIN res \cup DOMAIN r |->
        IF e \in DOMAIN r
        THEN SetKey(IF e \in DOMAIN res THEN res[e] ELSE EmptyDict, k, r[e])
        ELSE res[e]]

\* ---------------------------------------------------------------- algorithm
\* Lines 57-63.
AlgorithmBegin(method, kw) ==
    /\ pc = "idle"
    /\ call' = [op |-> "algorithm", name |-> method, kw |-> kw]
    /\ results' = EmptyDict
    /\ invoked' = <<>>
    /\ i' = 1
    /\ ncalls' = ncalls + 1
    /\ IF method \notin DOMAIN NxDict
       THEN /\ err' = <<"ValueError", Message("name", "networkx.", method)>>
            /\ pc' = "done"
       ELSE IF ~IsFunction(NxDict[method])
       THEN /\ err' = <<"ValueError", Message("method", "networkx.", method)>>
            /\ pc' = "done"
       ELSE /\ err' = NoErr
            /\ pc' = "algorithm"
    /\ UNCHANGED <<coll, attr, last, kprev, new_edges, N, prev>>

\* One iteration of the loop of lines 65-72.  set_node_attributes does
\* G.node[n][name] = v for every key n of r, so a key that is no node of G (an
\* edge) raises KeyError.
AlgorithmStep ==
    /\ pc = "algorithm"
    /\ i <= Len(order)
    /\ LET k == order[i]
           method == call.name
           r == NxApply(method, k, call.kw)
       IN  /\ invoked' = Append(invoked, k)
           /\ IF ~Accepts(method, call.kw)
              THEN /\ err' = <<"TypeError", <<>>>>
                   /\ pc' = "done"
                   /\ UNCHANGED <<results, attr, i>>
              ELSE IF ~ReturnsMapping(method)
              THEN /\ err' = <<"AttributeError", <<>>>>
                   /\ pc' = "done"
                   /\ UNCHANGED <<results, attr, i>>
              ELSE IF ~NodeKeyed(method) /\ DOMAIN r # {}
              THEN /\ err' = <<"KeyError", <<>>>>
                   /\ pc' = "done"
                   /\ results' = Merge(results, k, r)
                   /\ UNCHANGED <<attr, i>>
              ELSE /\ results' = Merge(results, k, r)
                   /\ attr' = IF NodeKeyed(method)
                              THEN SetNodeAttributes(k, method, r) ELSE attr
                   /\ i' = i + 1
                   /\ UNCHANGED <<pc, err>>
    /\ UNCHANGED <<coll, call, last, kprev, new_edges, N, prev, ncalls>>

\* Line 73: return results.
AlgorithmFinish ==
    /\ pc = "algorithm"
    /\ i > Len(order)
    /\ pc' = "done"
    /\ UNCHANGED <<coll, attr, call, i, results, err, invoked, last, kprev,
                   new_edges, N, prev, ncalls>>

\* ---------------------------------------------------------------- connected
\* Lines 163-169.
ConnectedBegin(method, kw) ==
    /\ pc = "idle"
    /\ call' = [op |-> "connected", name |-> method, kw |-> kw]
    /\ results' = EmptyDict
    /\ invoked' = <<>>
    /\ i' = 1
    /\ ncalls' = ncalls + 1
    /\ IF method \notin DOMAIN NxConnectedDict
       THEN /\ err' = <<"ValueError", Message("name", "networkx.connected.", method)>>
            /\ pc' = "done"
       ELSE IF ~IsFunction(NxConnectedDict[method])
       THEN /\ err' = <<"ValueError", Message("method", "networkx.connected.", method)>>
            /\ pc' = "done"
       ELSE /\ err' = NoErr
            /\ pc' = "connected"
    /\ UNCHANGED <<coll, attr, last, kprev, new_edges, N, prev>>

\* One iteration of the loop of lines 171-172.
ConnectedStep ==
    /\ pc = "connected"
    /\ i <= Len(order)
    /\ LET k == order[i]
       IN  /\ invoked' = Append(invoked, k)
           /\ IF ~Accepts(call.name, call.kw)
              THEN /\ err' = <<"TypeError", <<>>>>
                   /\ pc' = "done"
                   /\ UNCHANGED <<results, i>>
              ELSE /\ results' = SetKey(results, k, NxApply(call.name, k, call.kw))
                   /\ i' = i + 1
                   /\ UNCHANGED <<pc, err>>
    /\ UNCHANGED <<coll, attr, call, last, kprev, new_edges, N, prev, ncalls>>

\* Line 173: return results.
ConnectedFinish ==
    /\ pc = "connected"
    /\ i > Len(order)
    /\ pc' = "done"
    /\ UNCHANGED <<coll, attr, call, i, results, err, invoked, last, kprev,
                   new_edges, N, prev, ncalls>>

\* ------------------------------------------------------- a series of calls
\* The caller receives the result (or the exception) and may call again.
Return ==
    /\ pc = "done"
    /\ pc' = "idle"
    /\ prev' = [call |-> call, results |-> results, err |-> err]
    /\ UNCHANGED <<coll, attr, call, i, results, err, invoked, last, kprev,
                   new_edges, N, ncalls>>

PathABC == [nodes |-> {"A", "B", "C"}, edges |-> {{"A", "B"}, {"B", "C"}}]

EdgeAB == [nodes |-> {"A", "B"}, edges |-> {{"A", "B"}}]

Triangle == [nodes |-> {"A", "B", "C"},
             edges |-> {{"A", "B"}, {"B", "C"}, {"A", "C"}}]

NoEdges == [nodes |-> {"A", "C"}, edges |-> {}]

NullGraph == [nodes |-> {}, edges |-> {}]

\* Attribute x of node m in slice k: A: 1, 2, ..; B: 2, 2, ..; C: 3, 5, ..
XVal(k, m) == IF m = "A" THEN Num(k) ELSE IF m = "B" THEN Num(2) ELSE Num(2 * k + 1)

\* Collections of 1..APSlices graphs of the set gset, every node carrying x.
InitFrom(gset) ==
    /\ \E n \in 1..APSlices :
         /\ order \in UpDown(n)
         /\ \E gs \in [1..n -> gset] :
              /\ gnodes = [k \in 1..n |-> gs[k].nodes]
              /\ gedges = [k \in 1..n |-> gs[k].edges]
              /\ attr = [k \in 1..n |-> [m \in gs[k].nodes |-> [a \in {"x"} |-> XVal(k, m)]]]
    /\ InitCall

\* One call of a dispatcher, with any of the method names and keywords.
InitDispatch == InitFrom({PathABC, EdgeAB, Triangle, NoEdges, NullGraph})

NextDispatch ==
    \/ (ncalls < 1 /\ \E m \in Methods, kw \in KwChoices : AlgorithmBegin(m, kw))
    \/ AlgorithmStep
    \/ AlgorithmFinish
    \/ (ncalls < 1 /\ \E m \in Methods, kw \in KwChoices : ConnectedBegin(m, kw))
    \/ ConnectedStep
    \/ ConnectedFinish

SpecDispatch == InitDispatch /\ [][NextDispatch]_vars

\* A series of calls of the four operations on one collection.
SeriesMethods == {"degree", "edge_betweenness_centrality", "number_connected_components"}

DeltaAttrs == {"x", "degree"}

Init == InitFrom({PathABC, EdgeAB, Triangle})

Next ==
    \/ (ncalls < MaxCalls /\ \E m \in SeriesMethods, kw \in KwChoices : AlgorithmBegin(m, kw))
    \/ AlgorithmStep
    \/ AlgorithmFinish
    \/ (ncalls < MaxCalls /\ \E m \in SeriesMethods, kw \in KwChoices : ConnectedBegin(m, kw))
    \/ ConnectedStep
    \/ ConnectedFinish
    \/ (ncalls < MaxCalls /\ \E a \in DeltaAttrs : DeltaBegin(a))
    \/ DeltaStep
    \/ DeltaFinish
    \/ (ncalls < MaxCalls /\ APBegin)
    \/ APStep
    \/ APFinish
    \/ Return

Spec == Init /\ [][Next]_vars

\* ------------------------------------------------------ claims: dispatchers
Namespace(op) == IF op = "algorithm" THEN NxDict ELSE NxConnectedDict

Where(op) == IF op = "algorithm" THEN "networkx." ELSE "networkx.connected."

UnknownAlgorithm(op) == <<"ValueError", <<"No", "such", "name", "in", Where(op)>>>>

NotCallableAlgorithm(op) == <<"ValueError", <<"No", "such", "method", "in", Where(op)>>>>

\* The step that begins a call of a dispatcher.
DispatchBegins == pc = "idle" /\ pc' # "idle" /\ call'.op \in {"algorithm", "connected"}

\* The call ends in its first step with error e: no graph was handed to the
\* function, no attribute was written and the result is empty.
FailsEarly(e) ==
    /\ pc' = "done"
    /\ err' = e
    /\ invoked' = <<>>
    /\ attr' = attr
    /\ results' = EmptyDict

\* C1: in both dispatchers a name absent from the namespace fails with the
\* UnknownAlgorithm error, a name bound to something that is no plain function
\* fails with the distinct NotCallableAlgorithm error, and both are raised
\* before any graph is processed.
C1_EarlyFailure ==
    [][DispatchBegins =>
         LET op == call'.op
             m == call'.name
         IN  /\ m \notin DOMAIN Namespace(op) => FailsEarly(UnknownAlgorithm(op))
             /\ (m \in DOMAIN Namespace(op) /\ Namespace(op)[m] # "function")
                    => FailsEarly(NotCallableAlgorithm(op))
             /\ UnknownAlgorithm(op) # NotCallableAlgorithm(op)]_vars

C1_Witness ==
    /\ pc = "done"
    /\ call.op = "connected"
    /\ call.name = "nx"
    /\ err = NotCallableAlgorithm("connected")
    /\ Len(order) = 2
    /\ gedges[order[1]] # {}
    /\ invoked = <<>>

ValidMapping ==
    /\ call.op = "algorithm"
    /\ call.name \in DOMAIN NxDict
    /\ NxDict[call.name] = "function"
    /\ ReturnsMapping(call.name)
    /\ Accepts(call.name, call.kw)

\* C2: after algorithm(C, method) with a valid method whose result for slice k
\* is the mapping r_k, results[e][k] is defined exactly when e is a key of r_k
\* and equals r_k[e], and every graph k carries an attribute named after the
\* method whose values are exactly r_k.
C2_Original ==
    (pc = "done" /\ ValidMapping) =>
        /\ err = NoErr
        /\ \A k \in Keys :
             LET r == NxApply(call.name, k, call.kw)
             IN  /\ \A e \in DOMAIN r :
                      e \in DOMAIN results /\ k \in DOMAIN results[e]
                      /\ results[e][k] = r[e]
                 /\ \A e \in DOMAIN results :
                      DOMAIN results[e] # {}
                      /\ (k \in DOMAIN results[e] => e \in DOMAIN r)
                 /\ \A n \in gnodes[k] :
                      /\ call.name \in DOMAIN attr[k][n] <=> n \in DOMAIN r
                      /\ n \in DOMAIN r => attr[k][n][call.name] = r[n]

DispatchFailed ==
    /\ pc = "done"
    /\ call.op \in {"algorithm", "connected"}
    /\ err[1] = "ValueError"

\* C7 as stated: the message of a dispatcher's error names the method string
\* the caller passed.
C7_Original ==
    DispatchFailed => \E j \in 1..Len(err[2]) : err[2][j] = call.name

\* C7 amended: the message of a dispatcher's error is one of four fixed texts,
\* "No such name in <namespace>." for an absent name and "No such method in
\* <namespace>." for a name that is no function; it tells the namespace and the
\* kind of failure and is the same whatever method string was passed.
C7_Amended ==
    DispatchFailed =>
        err[2] = IF call.name \in DOMAIN Namespace(call.op)
                 THEN <<"No", "such", "method", "in", Where(call.op)>>
                 ELSE <<"No", "such", "name", "in", Where(call.op)>>

C7_Witness ==
    /\ DispatchFailed
    /\ call.op = "algorithm"
    /\ call.name = "Graph"
    /\ err[2] = <<"No", "such", "method", "in", "networkx.">>

\* --------------------------------------------------------- claim: idempotence
\* C6: a call that repeats the call before it, same operation and same
\* arguments on the same collection, returns the same result mapping: the
\* attributes the first run wrote do not change the second run's result.
C6_Idempotent ==
    (pc = "done" /\ prev.call = call /\ prev.err = NoErr /\ err = NoErr)
        => results = prev.results

C6_Witness ==
    /\ pc = "done"
    /\ prev.call = call
    /\ call.op = "delta"
    /\ call.name = "x"
    /\ err = NoErr
    /\ Len(order) = 2
    /\ "x_delta" \in DOMAIN attr[1]["A"]
    /\ results[2]["A"] = Num(1)
    /\ results = prev.results

\* ------------------------------------------------------------ claims: delta
DeltaDone == pc = "done" /\ call.op = "delta"

\* Node n carries the attribute in slice k's graph.
Carries(k, n, a) == n \in gnodes[k] /\ a \in DOMAIN attr[k][n]

\* The attribute value of node n in slice k cannot be read as a number.
NotNumeric(k, n, a) == Carries(k, n, a) /\ attr[k][n][a][1] \in {"text", "none"}

AllNumeric(a) == \A k \in Keys, n \in Nodes : ~NotNumeric(k, n, a)

ValueAt(k, n, a) == ToFloat(attr[k][n][a])

\* The slices before k, in key order, in which n carries the attribute.
EarlierWith(k, n, a) == {j \in Keys : j < k /\ Carries(j, n, a)}

MaxKey(S) == CHOOSE x \in S : \A y \in S : y <= x

\* The delta the claim gives node n at slice k.
ExpectedDelta(k, n, a) ==
    IF EarlierWith(k, n, a) = {} THEN ValueAt(k, n, a)
    ELSE Sub(ValueAt(k, n, a), ValueAt(MaxKey(EarlierWith(k, n, a)), n, a))

\* C3: deltas[k][n] is defined exactly when n carries the attribute in slice k;
\* it is the current value minus n's value at the most recent earlier slice, in
\* ascending key order, in which n carried the attribute, or the current value
\* itself when there is no such slice.
C3_FirstDifference ==
    (DeltaDone /\ err = NoErr) =>
        /\ DOMAIN results = Keys
        /\ \A k \in Keys, n \in Nodes :
             /\ n \in DOMAIN results[k] <=> Carries(k, n, call.name)
             /\ Carries(k, n, call.name) =>
                    results[k][n] = ExpectedDelta(k, n, call.name)

C3_Witness ==
    /\ DeltaDone
    /\ err = NoErr
    /\ Len(order) = 3
    /\ order[1] > order[2]
    /\ \A k \in Keys : Carries(k, "A", "x") /\ attr[k]["A"]["x"][1] = "num"
    /\ attr[1]["A"]["x"][2] < attr[2]["A"]["x"][2]
    /\ attr[2]["A"]["x"][2] < attr[3]["A"]["x"][2]
    /\ results[1]["A"] = attr[1]["A"]["x"]
    /\ results[3]["A"] = Num(attr[3]["A"]["x"][2] - attr[2]["A"]["x"][2])
    /\ Carries(1, "B", "x") /\ ~Carries(2, "B", "x") /\ Carries(3, "B", "x")
    /\ results[3]["B"] = Num(0)

\* C5 as stated: a value that cannot be read as a number does not fail the
\* call; its node just has no entry in that slice's deltas.
C5_Original ==
    DeltaDone =>
        /\ err = NoErr
        /\ \A k \in Keys, n \in Nodes :
             NotNumeric(k, n, call.name) => n \notin DOMAIN results[k]

\* The first slice, in key order, holding a value that is no number.
FirstBad(a) == CHOOSE k \in Keys :
    /\ \E n \in Nodes : NotNumeric(k, n, a)
    /\ \A j \in Keys : (\E n \in Nodes : NotNumeric(j, n, a)) => k <= j

\* C5 amended: a value that cannot be read as a number fails the call, with
\* the ValueError (a string) or TypeError (None) of the coercion, since only
\* KeyError is caught.  The slices before the first such slice in key order
\* carry their '<attribute>_delta' write-back, that slice and the later ones
\* carry none, and no result is returned.  Without such a value the call
\* succeeds.
C5_Amended ==
    DeltaDone =>
        /\ err = NoErr <=> AllNumeric(call.name)
        /\ err # NoErr =>
             LET a == call.name
                 kf == FirstBad(a)
             IN  /\ \E n \in Nodes :
                      /\ NotNumeric(kf, n, a)
                      /\ err[1] = (IF attr[kf][n][a][1] = "text"
                                   THEN "ValueError" ELSE "TypeError")
                 /\ \A k \in Keys : \A n \in gnodes[k] :
                      /\ (k < kf /\ Carries(k, n, a)) =>
                            /\ DeltaName(a) \in DOMAIN attr[k][n]
                            /\ attr[k][n][DeltaName(a)] = ExpectedDelta(k, n, a)
                      /\ k >= kf => DeltaName(a) \notin DOMAIN attr[k][n]

C5_Witness ==
    /\ DeltaDone
    /\ err[1] = "ValueError"
    /\ Len(order) = 3
    /\ NotNumeric(2, "A", "x")
    /\ Carries(3, "A", "x")
    /\ Carries(2, "B", "x")
    /\ "x_delta" \in DOMAIN attr[1]["A"]
    /\ "x_delta" \notin DOMAIN attr[2]["B"]

\* ------------------------------------------- claims: attachment_probability
APDone == pc = "done" /\ call.op = "attachment_probability" /\ err = NoErr

HasAP(k, n) == "attachment_probability" \in DOMAIN attr[k][n]

APAttr(k, n) == attr[k][n]["attachment_probability"]

LastZero ==
    \A n \in gnodes[order[Len(order)]] :
        HasAP(order[Len(order)], n) /\ APAttr(order[Len(order)], n) = Num(0)

\* The edges of graph k2 that graph k1 does not have.
AddedEdges(k1, k2) == gedges[k2] \ gedges[k1]

\* Slice k2 adds exactly one new edge, and it is at node a, which has a
\* neighbor in slice k1.
OneNewEdgeAt(a, k1, k2) ==
    /\ Cardinality(AddedEdges(k1, k2)) = 1
    /\ \A e \in AddedEdges(k1, k2) : a \in e
    /\ a \in gnodes[k1]
    /\ Neighbors(k1, a) # {}

\* The other endpoint of the one new edge is no node of slice k1, or has no
\* neighbor there.
OtherEndFresh(a, k1, k2) ==
    \A e \in AddedEdges(k1, k2) : \A b \in e \ {a} :
        b \notin gnodes[k1] \/ Neighbors(k1, b) = {}

C4Outcome(a, k1) ==
    /\ results[k1][a] = Num(1)
    /\ \A n \in gnodes[k1] \ {a} : results[k1][n] = Num(0)
    /\ LastZero

\* C4 as stated: on a two-slice collection whose second slice adds exactly one
\* new edge at node A (A with a neighbor in slice 1), probs[slice1][A] = 1.0,
\* every other node of slice 1 has 0.0, and the last slice's attribute is zero.
C4_Original ==
    (APDone /\ Len(order) = 2) =>
        \A a \in Nodes :
            OneNewEdgeAt(a, order[1], order[2]) => C4Outcome(a, order[1])

\* C4 amended: the same, provided the other endpoint of the new edge is not a
\* node of slice 1 that has a neighbor there (such an endpoint gets a new-edge
\* count of its own, and the two endpoints share the probability).
C4_Amended ==
    (APDone /\ Len(order) = 2) =>
        \A a \in Nodes :
            (OneNewEdgeAt(a, order[1], order[2]) /\ OtherEndFresh(a, order[1], order[2]))
                => C4Outcome(a, order[1])

C4_Witness ==
    /\ APDone
    /\ Len(order) = 2
    /\ \E a \in Nodes :
         /\ OneNewEdgeAt(a, order[1], order[2])
         /\ OtherEndFresh(a, order[1], order[2])
         /\ results[order[1]][a] = Num(1)
         /\ gnodes[order[1]] = Nodes
         /\ gnodes[order[2]] = Nodes

\* C8: probs has one entry per slice except the last one iterated; probs[k] is
\* keyed by exactly the nodes of slice k and equals that graph's
\* attachment_probability attribute; the last slice's attribute is all zero.
C8_ShiftedBack ==
    (APDone /\ Len(order) >= 1) =>
        /\ DOMAIN results = Keys \ {order[Len(order)]}
        /\ \A k \in DOMAIN results :
             /\ DOMAIN results[k] = gnodes[k]
             /\ \A n \in gnodes[k] : HasAP(k, n) /\ APAttr(k, n) = results[k][n]
        /\ LastZero

C8_Witness ==
    /\ APDone
    /\ Len(order) = 2
    /\ order[2] < order[1]
    /\ gnodes[order[1]] # gnodes[order[2]]
    /\ gnodes[order[2]] # {}
    /\ \E n \in gnodes[order[1]] : results[order[1]][n] # Num(0)

\* The pair of consecutive slices the latest iteration compared.
PairDone ==
    /\ call.op = "attachment_probability"
    /\ pc \in {"attachment_probability", "done"}
    /\ err = NoErr
    /\ i >= 3

PrevK == order[i - 2]

CurK == order[i - 1]

\* C9: a node of the previous slice with no neighbor there has new-edge count 0
\* and probability 0.0 at the previous slice's index, whatever it gains; a node
\* absent from the previous slice has no new-edge count, adds nothing to N and
\* has no entry in the previous slice's probabilities.
C9_ZeroPriorAndAbsent ==
    PairDone =>
        /\ \A n \in gnodes[PrevK] :
             Neighbors(PrevK, n) = {} =>
                /\ n \in gnodes[CurK] => (n \in DOMAIN new_edges /\ new_edges[n] = 0)
                /\ results[PrevK][n] = Num(0)
        /\ \A n \in gnodes[CurK] \ gnodes[PrevK] :
             /\ n \notin DOMAIN new_edges
             /\ n \notin DOMAIN results[PrevK]
        /\ N = SumOver(new_edges, DOMAIN new_edges \cap gnodes[PrevK])

C9_Witness ==
    /\ PairDone
    /\ \E n \in gnodes[PrevK] \cap gnodes[CurK] :
         Neighbors(PrevK, n) = {} /\ Neighbors(CurK, n) # {}
    /\ \E n \in gnodes[CurK] \ gnodes[PrevK] : Neighbors(CurK, n) # {}

\* Exact sum of the floats f[x], x in S, as a pair <<numerator, denominator>>.
RECURSIVE RatSum(_, _)
RatSum(f, S) ==
    IF S = {} THEN <<0, 1>>
    ELSE LET x == CHOOSE y \in S : TRUE
             r == RatSum(f, S \ {x})
         IN  <<f[x][2] * r[2] + r[1] * f[x][3], f[x][3] * r[2]>>

InUnit(v) == v[1] = "num" /\ 0 <= v[2] /\ v[2] <= v[3]

====
